---- MODULE Spec2Model ----
(***************************************************************************)
(* Model of src/server.js: an express server that ingests logs, stats and  *)
(* analytics events, persists them as JSON files and keeps an in-memory    *)
(* aggregator that a dashboard endpoint summarises.                        *)
(*                                                                         *)
(* Every route handler is synchronous JavaScript (only fs.*Sync calls, no  *)
(* await, no callback) running on node's single-threaded event loop, so a  *)
(* handler runs to completion before the next request is dispatched: each  *)
(* handler is one atomic action.  Requests that are being received at the  *)
(* same time are the elements of inflight; the event loop dispatches them  *)
(* one at a time in any order.                                             *)
(*                                                                         *)
(* Time is counted in ticks; TicksPerDay ticks make the 24 hours that      *)
(* src/server.js:221 writes as 24 * 60 * 60 * 1000 ms and that             *)
(* toISOString().split('T')[0] (line 55) uses to name the day-file.        *)
(*                                                                         *)
(* Files hold the parsed value of their JSON text.  JSON.stringify drops   *)
(* keys whose value is undefined and JSON.parse gives undefined for an     *)
(* absent key; Undefined / UndefinedNum / NoObject stand for both, so the  *)
(* write/read round trip is exact on the values modelled.  The file        *)
(* system calls themselves are assumed to succeed (the data directories    *)
(* exist and are writable, lines 30-32); a 500 response arises only from   *)
(* an exception thrown by the handler's own JavaScript.                    *)
(***************************************************************************)
EXTENDS Integers, Sequences, FiniteSets, TLC

(***************************************************************************)
(* Bounds of the model.                                                    *)
(***************************************************************************)
MaxClock == 3        \* the clock runs over 1..MaxClock
MaxCalls == 2        \* ingestion calls handled in a behaviour of Spec
MaxLogs == 2         \* ... of LogsSpec
MaxStats == 3        \* ... of StatsSpec
MaxAnalytics == 2    \* ... of AnalyticsSpec
MaxExports == 2      \* ... of ExportSpec
MaxTop == 3          \* ... of TopSpec
MaxRace == 3         \* ... of RaceSpec
MaxInflight == 2     \* requests received and not yet dispatched
MaxBoots == 1        \* process restarts in one behaviour
MaxFaults == 2       \* ingestion calls handled in a behaviour of FaultSpec
MaxEvents == 3       \* ... of EventsSpec
MaxUsers == 3        \* ... of UsersSpec

(***************************************************************************)
(* Program constants.                                                      *)
(***************************************************************************)
TicksPerDay == 2     \* 24 * 60 * 60 * 1000 ms, in ticks
TopN == 10           \* .slice(0, 10)
RecentN == 50        \* .slice(0, 50)
UserLogsN == 100     \* .slice(0, 100)
UserLogFilesN == 10  \* .slice(0, 10) of the day-files

(***************************************************************************)
(* JavaScript values.                                                      *)
(***************************************************************************)
Undefined == "<undefined>"     \* an absent string-valued property
UndefinedNum == -1             \* an absent number-valued property
Clients == {"ext1", "ext2"}
Domains == {"a.com", "b.com"}

\* Boolean coercion of a string-valued and of a number-valued property.
Truthy(s) == s \notin {Undefined, ""}
TruthyNum(n) == n \notin {UndefinedNum, 0}

\* a || b on strings and on numbers.
OrElse(a, b) == IF Truthy(a) THEN a ELSE b
OrElseNum(a, b) == IF TruthyNum(a) THEN a ELSE b

\* An optional object (proxyConfig) and an optional array (domains).
NoObject == [defined |-> FALSE, host |-> Undefined]
Config(h) == [defined |-> TRUE, host |-> h]
NoArray == [defined |-> FALSE, items |-> <<>>]
Array(s) == [defined |-> TRUE, items |-> s]

\* req.ip and req.get('User-Agent'): request metadata, one value here.
ClientIp == "10.0.0.1"
UserAgent == "ext/1.0"

(***************************************************************************)
(* A JavaScript Map: its entries in insertion order.                       *)
(***************************************************************************)
EmptyMap == <<>>
MapHas(m, k) == \E i \in DOMAIN m : m[i].k = k
MapIndex(m, k) == CHOOSE i \in DOMAIN m : m[i].k = k
MapGet(m, k) == m[MapIndex(m, k)].v
MapSet(m, k, v) ==
  IF MapHas(m, k) THEN [m EXCEPT ![MapIndex(m, k)].v = v]
  ELSE Append(m, [k |-> k, v |-> v])
MapKeys(m) == {m[i].k : i \in DOMAIN m}
MapValues(m) == [i \in DOMAIN m |-> m[i].v]

\* Mutant of MapPushAll: the client's array is replaced by the new items.
MapPushAllReplaces(m, k, items) == MapSet(m, k, items)

\* if (!map.has(id)) map.set(id, []);  map.get(id).push(...items)
MapPushAll(m, k, items) ==
  IF MapHas(m, k) THEN [m EXCEPT ![MapIndex(m, k)].v = @ \o items]
  ELSE Append(m, [k |-> k, v |-> items])

\* Mutant of Put: the write does not reach the file.
PutDropped(f, k, v) == f

\* f with key k set to v (a file written, a counter updated).
Put(f, k, v) == [x \in DOMAIN f \cup {k} |-> IF x = k THEN v ELSE f[x]]

\* The sum of the values of a function with a finite domain.
SumOf(f) ==
  LET RECURSIVE Sum(_)
      Sum(S) == IF S = {} THEN 0
                ELSE LET x == CHOOSE y \in S : TRUE IN f[x] + Sum(S \ {x})
  IN Sum(DOMAIN f)

RECURSIVE SumLen(_)
SumLen(seqs) ==
  IF seqs = <<>> THEN 0 ELSE Len(Head(seqs)) + SumLen(Tail(seqs))

RECURSIVE Flat(_)
Flat(seqs) == IF seqs = <<>> THEN <<>> ELSE Head(seqs) \o Flat(Tail(seqs))

Take(s, n) == IF Len(s) <= n THEN s ELSE SubSeq(s, 1, n)

(***************************************************************************)
(* State.                                                                  *)
(***************************************************************************)
VARIABLES
  clock,          \* Date.now(), in ticks
  dirs,           \* the directories under data/ made by mkdirSync
  logFiles,       \* logs/<id>/<day>.json: <<id, day>> -> the entries
  statFiles,      \* stats/<id>/stats.json: id -> the Stats Record
  userFiles,      \* users/<id>.json: id -> the User Record
  analyticsFiles, \* logs/<id>/analytics/<type>_<ms>.json
  exportFiles,    \* data/export_<ms>.json: ms -> the snapshot
  analyticsStore, \* the four in-memory Maps
  inflight,       \* requests received and not yet dispatched
  res,            \* the last response sent
  hist            \* history: what has been processed so far

fsVars == <<dirs, logFiles, statFiles, userFiles, analyticsFiles, exportFiles>>
vars == <<clock, dirs, logFiles, statFiles, userFiles, analyticsFiles,
          exportFiles, analyticsStore, inflight, res, hist>>

\* new Date().toISOString().split('T')[0]
IsoDate(t) == t \div TicksPerDay

\* What a later Date.now() in the same handler returns, the first one
\* having returned t: the clock may have moved on by a tick.
Later(t) == {u \in t .. MaxClock : u <= t + 1}

\* The number of ingestion calls handled so far is below the bound n.
Within(n) == hist.calls < n

\* A call that is refused for its missing identifier counts for nothing.
Admit(b, n) == ~Truthy(b.extensionId) \/ Within(n)

EmptyStore ==
  [requests |-> EmptyMap, errors |-> EmptyMap,
   events |-> EmptyMap, users |-> EmptyMap]

\* A response: the route, the request it answers, the status and the body.
NoRequest == [none |-> TRUE]
NoResponse == [op |-> "none", req |-> NoRequest, status |-> 0, body |-> [none |-> TRUE]]

Response(op, req, status, body) ==
  [op |-> op, req |-> req, status |-> status, body |-> body]

\* Mutant of MissingId: only an absent identifier is refused.
MissingIdOnlyAbsent(b) == b.extensionId = Undefined

\* if (!extensionId) return res.status(400)
MissingId(b) == ~Truthy(b.extensionId)

ZeroPerClient == [c \in Clients |-> 0]

Init ==
  /\ clock = 1
  /\ dirs = {}
  /\ logFiles = <<>>
  /\ statFiles = <<>>
  /\ userFiles = <<>>
  /\ analyticsFiles = <<>>
  /\ exportFiles = <<>>
  /\ analyticsStore = EmptyStore
  /\ inflight = <<>>
  /\ res = NoResponse
  /\ hist = [calls |-> 0, boots |-> 0, callsBoot |-> 0,
             logsEver |-> ZeroPerClient,
             statsEver |-> ZeroPerClient,
             configEver |-> {},
             statsBoot |-> ZeroPerClient,
             domainBoot |-> [d \in Domains |-> 0],
             analyticsBoot |-> 0,
             overlap |-> [route \in {"logs", "stats"} |-> ZeroPerClient]]

(***************************************************************************)
(* POST /api/logs                                                          *)
(***************************************************************************)
\* The entry pushed at lines 58-64, with Date.now() read as now.
LogEntry(b, now) ==
  [timestamp |-> OrElseNum(b.timestamp, now),
   type |-> OrElse(b.type, "info"),
   message |-> b.message,
   proxy |-> b.proxy,
   ip |-> ClientIp]

LogsHandler(b) ==
  IF MissingId(b)
  THEN /\ res' = Response("logs", b, 400, [error |-> "extensionId required"])
       /\ UNCHANGED <<clock, fsVars, analyticsStore, hist>>
  ELSE \E t2 \in Later(clock) :
         LET id == b.extensionId
             t1 == clock
             logFile == <<id, IsoDate(t1)>>
             logs == IF logFile \in DOMAIN logFiles THEN logFiles[logFile] ELSE <<>>
         IN /\ dirs' = dirs \cup {<<"logs", id>>}
            /\ logFiles' = Put(logFiles, logFile, Append(logs, LogEntry(b, t2)))
            /\ analyticsStore' =
                 [analyticsStore EXCEPT !.events = MapPushAll(@, id, <<b>>)]
            /\ clock' = t2
            /\ res' = Response("logs", b, 200, [success |-> TRUE])
            /\ hist' = [hist EXCEPT !.calls = @ + 1, !.callsBoot = @ + 1,
                                    !.logsEver[id] = @ + 1]
            /\ UNCHANGED <<statFiles, userFiles, analyticsFiles, exportFiles>>

PostLogs(b) == LogsHandler(b) /\ UNCHANGED inflight

(***************************************************************************)
(* POST /api/stats                                                         *)
(***************************************************************************)
\* The Stats Record a first call starts from (lines 95-100).
NewStats == [totalRequests |-> 0, domains |-> <<>>, proxyUsage |-> <<>>]

Includes(s, x) == \E i \in DOMAIN s : s[i] = x

\* Mutant of UpdateStats: the domain is pushed without the includes test.
UpdateStatsAlwaysPushes(stats, b, now) ==
  [totalRequests |-> stats.totalRequests + 1,
   domains |-> IF Truthy(b.domain)
               THEN Append(stats.domains, b.domain) ELSE stats.domains,
   proxyUsage |-> IF Truthy(b.proxy)
                  THEN Append(stats.proxyUsage,
                              [proxy |-> b.proxy, timestamp |-> now,
                               domain |-> b.domain, type |-> b.type])
                  ELSE stats.proxyUsage]

\* Lines 103-116: the record after one more call with body b.
UpdateStats(stats, b, now) ==
  [totalRequests |-> stats.totalRequests + 1,
   domains |-> IF Truthy(b.domain) /\ ~Includes(stats.domains, b.domain)
               THEN Append(stats.domains, b.domain) ELSE stats.domains,
   proxyUsage |-> IF Truthy(b.proxy)
                  THEN Append(stats.proxyUsage,
                              [proxy |-> b.proxy, timestamp |-> now,
                               domain |-> b.domain, type |-> b.type])
                  ELSE stats.proxyUsage]

\* Mutant of UserData: the domains are added to those of the old record.
UserDataMergesDomains(b, now) ==
  [lastActive |-> now,
   proxyConfig |-> b.proxyConfig,
   domains |-> (IF b.extensionId \in DOMAIN userFiles
                THEN userFiles[b.extensionId].domains ELSE <<>>)
               \o (IF b.domains.defined THEN b.domains.items ELSE <<>>),
   ip |-> ClientIp,
   userAgent |-> UserAgent]

\* Lines 121-128: the User Record written for body b.  Every field the
\* handler ever stores is assigned, so what the old file held is gone.
UserData(b, now) ==
  [lastActive |-> now,
   proxyConfig |-> b.proxyConfig,
   domains |-> IF b.domains.defined THEN b.domains.items ELSE <<>>,
   ip |-> ClientIp,
   userAgent |-> UserAgent]

\* Mutant of ReadStats: the record on disk is not read back.
ReadStatsFresh(id) == NewStats

\* Lines 95-100: the Stats Record on disk, or a new one.
ReadStats(id) == IF id \in DOMAIN statFiles THEN statFiles[id] ELSE NewStats

\* Mutant of HasConfig: the User Record is written on every call.
HasConfigAlways(b) == TRUE

\* if (proxyConfig)
HasConfig(b) == b.proxyConfig.defined

StatsHandler(b) ==
  IF MissingId(b)
  THEN /\ res' = Response("stats", b, 400, [error |-> "extensionId required"])
       /\ UNCHANGED <<clock, fsVars, analyticsStore, hist>>
  ELSE \E t2 \in (IF Truthy(b.proxy) /\ HasConfig(b)
                  THEN Later(clock) ELSE {clock}) :
         LET id == b.extensionId
             t1 == clock
             stats == ReadStats(id)
             userData == UserData(b, t2)
         IN /\ dirs' = dirs \cup {<<"stats", id>>}
            /\ IF HasConfig(b)
               THEN /\ userFiles' = Put(userFiles, id, userData)
                    /\ analyticsStore' =
                         [analyticsStore EXCEPT
                            !.users = MapSet(@, id, userData),
                            !.requests = MapPushAll(@, id, <<b>>)]
               ELSE /\ userFiles' = userFiles
                    /\ analyticsStore' =
                         [analyticsStore EXCEPT
                            !.requests = MapPushAll(@, id, <<b>>)]
            /\ statFiles' = Put(statFiles, id, UpdateStats(stats, b, t1))
            /\ clock' = t2
            /\ res' = Response("stats", b, 200, [success |-> TRUE])
            /\ hist' = [hist EXCEPT
                 !.calls = @ + 1,
                 !.callsBoot = @ + 1,
                 !.statsEver[id] = @ + 1,
                 !.statsBoot[id] = @ + 1,
                 !.configEver = IF b.proxyConfig.defined THEN @ \cup {id} ELSE @,
                 !.domainBoot = IF Truthy(b.domain)
                                THEN [@ EXCEPT ![b.domain] = @ + 1] ELSE @]
            /\ UNCHANGED <<logFiles, analyticsFiles, exportFiles>>

PostStats(b) == StatsHandler(b) /\ UNCHANGED inflight

(***************************************************************************)
(* POST /api/analytics                                                     *)
(***************************************************************************)
\* The JSON values that data, and the items of data.requests and
\* data.errors, take.  A list-valued property is absent, an array, or a
\* number (truthy, and not iterable).
NoList == [is |-> "absent", items |-> <<>>]
List(s) == [is |-> "array", items |-> s]
NotIterable == [is |-> "number", items |-> <<>>]
JUndefined == [json |-> "undefined"]
JNull == [json |-> "null"]
JObject(d) ==
  [json |-> "object", domain |-> d, requests |-> NoList, errors |-> NoList]
JBatch(rs, es) ==
  [json |-> "object", domain |-> Undefined, requests |-> rs, errors |-> es]

\* v is null or undefined: reading a property of v throws a TypeError.
IsNullish(v) == "json" \in DOMAIN v /\ v.json \in {"null", "undefined"}

\* v.domain of a payload that is not nullish.
DomainOf(v) == IF "domain" \in DOMAIN v THEN v.domain ELSE Undefined

AnalyticsBody(id, type, data) ==
  [extensionId |-> id, type |-> type, data |-> data, sessionId |-> "s1"]

\* `${type}` in the file name.
TypeName(type) == IF type = Undefined THEN "undefined" ELSE type

\* Mutant of Spread: push(list) in place of push(...list).
SpreadForgotten(list) == <<list>>

\* ...list: the elements pushed by a spread of an array.
Spread(list) == list.items

\* Mutant of Route: a type without a case is stored like a request.
RouteDefaultRequest(store, id, type, data) ==
  [store |-> [store EXCEPT !.requests = MapPushAll(@, id, <<data>>)],
   threw |-> FALSE]

\* Lines 173-203: the store after the switch, and whether it threw.  In
\* map.get(id).push(...list) the Map entry is made (lines 191-193, 197-199)
\* before the spread is evaluated, so a list that is not iterable throws
\* after the client's empty array was set, and a throw at line 200 comes
\* after the requests of line 194 were appended.
Route(store, id, type, data) ==
  CASE type = "request" ->
         [store |-> [store EXCEPT !.requests = MapPushAll(@, id, <<data>>)],
          threw |-> FALSE]
    [] type = "error" ->
         [store |-> [store EXCEPT !.errors = MapPushAll(@, id, <<data>>)],
          threw |-> FALSE]
    [] type = "batch" ->
         IF IsNullish(data) THEN [store |-> store, threw |-> TRUE]
         ELSE IF data.requests.is = "number"
         THEN [store |-> [store EXCEPT !.requests = MapPushAll(@, id, <<>>)],
               threw |-> TRUE]
         ELSE LET s1 == IF data.requests.is = "array"
                        THEN [store EXCEPT
                                !.requests = MapPushAll(@, id, Spread(data.requests))]
                        ELSE store
              IN IF data.errors.is = "number"
                 THEN [store |-> [s1 EXCEPT !.errors = MapPushAll(@, id, <<>>)],
                       threw |-> TRUE]
                 ELSE IF data.errors.is = "array"
                 THEN [store |-> [s1 EXCEPT
                                    !.errors = MapPushAll(@, id, Spread(data.errors))],
                       threw |-> FALSE]
                 ELSE [store |-> s1, threw |-> FALSE]
    [] OTHER -> [store |-> store, threw |-> FALSE]

AnalyticsHandler(b) ==
  IF MissingId(b)
  THEN /\ res' = Response("analytics", b, 400, [error |-> "extensionId required"])
       /\ UNCHANGED <<clock, fsVars, analyticsStore, hist>>
  ELSE \E t2 \in Later(clock) :
         LET id == b.extensionId
             t1 == clock
             analyticsFile == <<id, TypeName(b.type), t1>>
             routed == Route(analyticsStore, id, b.type, b.data)
         IN /\ dirs' = dirs \cup {<<"logs", id>>, <<"logs", id, "analytics">>}
            /\ analyticsFiles' =
                 Put(analyticsFiles, analyticsFile,
                     [sessionId |-> b.sessionId, timestamp |-> t2,
                      type |-> b.type, data |-> b.data,
                      ip |-> ClientIp, userAgent |-> UserAgent])
            /\ analyticsStore' = routed.store
            /\ clock' = t2
            /\ res' = IF routed.threw
                      THEN Response("analytics", b, 500, [error |-> "TypeError"])
                      ELSE Response("analytics", b, 200, [success |-> TRUE])
            /\ hist' = [hist EXCEPT !.calls = @ + 1, !.callsBoot = @ + 1,
                                    !.analyticsBoot = @ + 1]
            /\ UNCHANGED <<logFiles, statFiles, userFiles, exportFiles>>

PostAnalytics(b) == AnalyticsHandler(b) /\ UNCHANGED inflight

(***************************************************************************)
(* Array.prototype.sort with a comparator (a, b) => key(b) - key(a): a     *)
(* stable sort, descending by key.  A key of UndefinedNum makes the        *)
(* difference NaN, which sort takes as 0; the comparator is then not       *)
(* consistent and the order is the one of the engine's algorithm.  For an  *)
(* array this short V8 finds the leading run and inserts the remaining     *)
(* elements one by one, comparing with the sorted elements from the last   *)
(* to the first: the insertion below.                                      *)
(***************************************************************************)
Compare(ka, kb) ==
  IF ka = UndefinedNum \/ kb = UndefinedNum THEN 0 ELSE kb - ka

\* order: indices already sorted; i is put before the trailing indices
\* that compare after it.
RECURSIVE InsertIndex(_, _, _)
InsertIndex(order, i, keys) ==
  IF order = <<>> THEN <<i>>
  ELSE LET last == order[Len(order)]
       IN IF Compare(keys[last], keys[i]) > 0
          THEN Append(InsertIndex(SubSeq(order, 1, Len(order) - 1), i, keys), last)
          ELSE Append(order, i)

RECURSIVE SortedIndices(_, _)
SortedIndices(keys, n) ==
  IF n = 0 THEN <<>> ELSE InsertIndex(SortedIndices(keys, n - 1), n, keys)

SortDescending(items, keys) ==
  LET order == SortedIndices(keys, Len(items))
  IN [i \in DOMAIN items |-> items[order[i]]]

\* Mutant of SortByCount: the comparator is a.count - b.count.
SortByCountAscending(entries) ==
  SortDescending(entries, [i \in DOMAIN entries |-> 1000 - entries[i].v])

SortByCount(entries) ==
  SortDescending(entries, [i \in DOMAIN entries |-> entries[i].v])

SortByTimestamp(items) ==
  SortDescending(items, [i \in DOMAIN items |-> items[i].timestamp])

\* counts[key] = (counts[key] || 0) + 1 over the keys, an object whose
\* properties keep their insertion order.
RECURSIVE Tally(_, _)
Tally(counts, keys) ==
  IF keys = <<>> THEN counts
  ELSE LET k == Head(keys)
           n == IF MapHas(counts, k) THEN MapGet(counts, k) ELSE 0
       IN Tally(MapSet(counts, k, n + 1), Tail(keys))

RECURSIVE Filter(_, _)
Filter(s, keep) ==
  IF s = <<>> THEN <<>>
  ELSE IF Head(s) \in keep THEN <<Head(s)>> \o Filter(Tail(s), keep)
       ELSE Filter(Tail(s), keep)

(***************************************************************************)
(* GET /api/dashboard                                                      *)
(***************************************************************************)
AllRequests == Flat(MapValues(analyticsStore.requests))
AllErrors == Flat(MapValues(analyticsStore.errors))
AllEvents == Flat(MapValues(analyticsStore.events))
AllUsers == MapValues(analyticsStore.users)

\* Line 237 reads req.domain of every payload: a TypeError on null/undefined.
DashboardThrows == \E i \in DOMAIN AllRequests : IsNullish(AllRequests[i])

TotalUsers == Cardinality(DOMAIN userFiles)

\* Mutant of TotalRequests: the size of the Map, not of its arrays.
TotalRequestsMapSize == Len(analyticsStore.requests)

TotalRequests == SumLen(MapValues(analyticsStore.requests))
TotalErrors == SumLen(MapValues(analyticsStore.errors))
ActiveUsers ==
  Cardinality({i \in DOMAIN AllUsers : clock - AllUsers[i].lastActive < TicksPerDay})

ProxyUsage ==
  LET hosts == [i \in DOMAIN AllUsers |-> AllUsers[i].proxyConfig.host]
      truthy == {h \in {hosts[i] : i \in DOMAIN hosts} : Truthy(h)}
      ranked == Take(SortByCount(Tally(EmptyMap, Filter(hosts, truthy))), TopN)
  IN [i \in DOMAIN ranked |-> [proxy |-> ranked[i].k, count |-> ranked[i].v]]

TopDomains ==
  LET ds == [i \in DOMAIN AllRequests |-> DomainOf(AllRequests[i])]
      truthy == {d \in {ds[i] : i \in DOMAIN ds} : Truthy(d)}
      ranked == Take(SortByCount(Tally(EmptyMap, Filter(ds, truthy))), TopN)
  IN [i \in DOMAIN ranked |-> [domain |-> ranked[i].k, count |-> ranked[i].v]]

RecentEvents == Take(SortByTimestamp(AllEvents), RecentN)

DashboardResponse ==
  IF DashboardThrows
  THEN Response("dashboard", NoRequest, 500, [error |-> "TypeError"])
  ELSE Response("dashboard", NoRequest, 200,
         [summary |-> [totalUsers |-> TotalUsers, activeUsers |-> ActiveUsers,
                       totalRequests |-> TotalRequests,
                       totalErrors |-> TotalErrors],
          proxyUsage |-> ProxyUsage,
          topDomains |-> TopDomains,
          recentEvents |-> RecentEvents])

\* Mutant of StoreAfterDashboard: each client's events array is sorted in
\* place.
StoreEventsSorted ==
  [analyticsStore EXCEPT
     !.events = [i \in DOMAIN @ |-> [k |-> @[i].k, v |-> SortByTimestamp(@[i].v)]]]

\* The aggregator after the handler ran.  Array.from(values()), flat() and
\* Object.entries() build new arrays; sort and slice work on those, and
\* the arrays held by the Maps keep their entries and their order.
StoreAfterDashboard == analyticsStore

GetDashboard ==
  /\ res' = DashboardResponse
  /\ analyticsStore' = StoreAfterDashboard
  /\ UNCHANGED <<clock, fsVars, inflight, hist>>

(***************************************************************************)
(* GET /api/user/:extensionId                                              *)
(***************************************************************************)
LookupIds == Clients \cup {"ext9"}

RECURSIVE Descending(_)
Descending(S) ==
  IF S = {} THEN <<>>
  ELSE LET m == CHOOSE x \in S : \A y \in S : y <= x
       IN <<m>> \o Descending(S \ {m})

\* Lines 284-299: the entries of the 10 latest day-files, latest file first.
UserLogs(id) ==
  IF <<"logs", id>> \notin dirs THEN <<>>
  ELSE LET days == {k[2] : k \in {f \in DOMAIN logFiles : f[1] = id}}
           logFileDays == Take(Descending(days), UserLogFilesN)
       IN Flat([i \in DOMAIN logFileDays |-> logFiles[<<id, logFileDays[i]>>]])

UserResponse(id) ==
  IF id \notin DOMAIN userFiles
  THEN Response("user", [extensionId |-> id], 404, [error |-> "User not found"])
  ELSE Response("user", [extensionId |-> id], 200,
         [user |-> userFiles[id],
          logs |-> Take(SortByTimestamp(UserLogs(id)), UserLogsN),
          requests |-> IF MapHas(analyticsStore.requests, id)
                       THEN MapGet(analyticsStore.requests, id) ELSE <<>>,
          errors |-> IF MapHas(analyticsStore.errors, id)
                     THEN MapGet(analyticsStore.errors, id) ELSE <<>>])

GetUser(id) ==
  /\ res' = UserResponse(id)
  /\ UNCHANGED <<clock, fsVars, analyticsStore, inflight, hist>>

(***************************************************************************)
(* GET /api/export                                                         *)
(***************************************************************************)
AdminToken == "Bearer admin123"
AuthHeaders == {Undefined, AdminToken, "Bearer wrong"}

\* JSON.stringify writes an undefined array element as null.
JsonArray(s) == [i \in DOMAIN s |-> IF s[i] = JUndefined THEN JNull ELSE s[i]]

\* Lines 331-336.  Object.fromEntries of a Map keeps its entries.
ExportData(now) ==
  [timestamp |-> now,
   totalUsers |-> Len(analyticsStore.users),
   analyticsStore |->
     [i \in DOMAIN analyticsStore.requests |->
        [k |-> analyticsStore.requests[i].k,
         v |-> JsonArray(analyticsStore.requests[i].v)]],
   users |-> analyticsStore.users]

\* Mutant of Authorized: any Authorization header is accepted.
AuthorizedAnyHeader(auth) == auth # Undefined

\* authToken !== 'Bearer admin123' is what refuses the call.
Authorized(auth) == auth = AdminToken

ExportHandler(auth) ==
  IF ~Authorized(auth)
  THEN /\ res' = Response("export", [authorization |-> auth], 403,
                          [error |-> "Unauthorized"])
       /\ UNCHANGED <<clock, fsVars, analyticsStore, hist>>
  ELSE \E t2 \in Later(clock) :
         /\ exportFiles' = Put(exportFiles, t2, ExportData(clock))
         /\ clock' = t2
         /\ res' = Response("export", [authorization |-> auth], 200, [file |-> t2])
         /\ hist' = [hist EXCEPT !.calls = @ + 1, !.callsBoot = @ + 1]
         /\ UNCHANGED <<dirs, logFiles, statFiles, userFiles, analyticsFiles,
                        analyticsStore>>

GetExport(auth) == ExportHandler(auth) /\ UNCHANGED inflight

(***************************************************************************)
(* The process is stopped and started again: lines 30-40 run anew, the     *)
(* files stay, requests not yet dispatched are lost with their sockets.    *)
(***************************************************************************)
\* Mutant of Restart: the users Map outlives the process.
RestartKeepsUsers ==
  /\ hist.boots < MaxBoots
  /\ analyticsStore' = [EmptyStore EXCEPT !.users = analyticsStore.users]
  /\ inflight' = <<>>
  /\ res' = NoResponse
  /\ hist' = [hist EXCEPT
       !.boots = @ + 1, !.callsBoot = 0, !.statsBoot = ZeroPerClient,
       !.domainBoot = [d \in Domains |-> 0], !.analyticsBoot = 0]
  /\ UNCHANGED <<clock, fsVars>>

Restart ==
  /\ hist.boots < MaxBoots
  /\ analyticsStore' = EmptyStore
  /\ inflight' = <<>>
  /\ res' = NoResponse
  /\ hist' = [hist EXCEPT
       !.boots = @ + 1,
       !.callsBoot = 0,
       !.statsBoot = ZeroPerClient,
       !.domainBoot = [d \in Domains |-> 0],
       !.analyticsBoot = 0]
  /\ UNCHANGED <<clock, fsVars>>

Tick ==
  /\ clock < MaxClock
  /\ clock' = clock + 1
  /\ UNCHANGED <<fsVars, analyticsStore, inflight, res, hist>>

(***************************************************************************)
(* Requests on their way: received by the server, not yet dispatched to    *)
(* their handler.  inflight maps each such request to how many copies of   *)
(* it are waiting.                                                         *)
(***************************************************************************)
InflightCount(q) == SumOf(q)

Waiting(route, id) ==
  InflightCount([rq \in {x \in DOMAIN inflight :
                           x.route = route /\ x.body.extensionId = id}
                   |-> inflight[rq]])

Receive(rq) ==
  /\ hist.calls + InflightCount(inflight) < MaxRace
  /\ InflightCount(inflight) < MaxInflight
  /\ inflight' = Put(inflight, rq,
                     IF rq \in DOMAIN inflight THEN inflight[rq] + 1 ELSE 1)
  /\ hist' = [hist EXCEPT !.overlap =
       IF rq.body.extensionId \in Clients
       THEN LET n == Waiting(rq.route, rq.body.extensionId) + 1
            IN [@ EXCEPT ![rq.route][rq.body.extensionId] =
                           IF n > @ THEN n ELSE @]
       ELSE @]
  /\ UNCHANGED <<clock, fsVars, analyticsStore, res>>

Taken(rq) ==
  IF inflight[rq] > 1 THEN [inflight EXCEPT ![rq] = @ - 1]
  ELSE [x \in DOMAIN inflight \ {rq} |-> inflight[x]]

\* The event loop takes one waiting request and runs its handler to
\* completion.
DispatchLogs ==
  \E rq \in DOMAIN inflight :
    /\ rq.route = "logs"
    /\ LogsHandler(rq.body)
    /\ inflight' = Taken(rq)

DispatchStats ==
  \E rq \in DOMAIN inflight :
    /\ rq.route = "stats"
    /\ StatsHandler(rq.body)
    /\ inflight' = Taken(rq)

Dispatch == DispatchLogs \/ DispatchStats

(***************************************************************************)
(* The requests the specifications draw from.                              *)
(***************************************************************************)
LogBody(id, type, timestamp) ==
  [extensionId |-> id, message |-> "m", type |-> type,
   timestamp |-> timestamp, proxy |-> Undefined]

StatsBody(id, domain, proxy, domains, proxyConfig) ==
  [extensionId |-> id, type |-> Undefined, url |-> Undefined,
   domain |-> domain, proxy |-> proxy, domains |-> domains,
   proxyConfig |-> proxyConfig]

\* Spec: every route, few bodies for each.
SomeLogBodies ==
  {LogBody("ext1", Undefined, UndefinedNum), LogBody("", "warn", 2)}
SomeStatsBodies ==
  {StatsBody("ext1", "a.com", Undefined, Array(<<"a.com">>), Config("h1")),
   StatsBody("ext2", "b.com", "p1", NoArray, NoObject),
   StatsBody(Undefined, "a.com", Undefined, NoArray, Config("h1"))}
SomeAnalyticsBodies ==
  {AnalyticsBody("ext1", "request", JObject("a.com")),
   AnalyticsBody("ext2", "error", JObject(Undefined)),
   AnalyticsBody("", "request", JObject("a.com"))}

Next ==
  \/ \E b \in SomeLogBodies : Admit(b, MaxCalls) /\ PostLogs(b)
  \/ \E b \in SomeStatsBodies : Admit(b, MaxCalls) /\ PostStats(b)
  \/ \E b \in SomeAnalyticsBodies : Admit(b, MaxCalls) /\ PostAnalytics(b)
  \/ GetDashboard
  \/ \E id \in LookupIds : GetUser(id)
  \/ Tick
  \/ Restart

Spec == Init /\ [][Next]_vars

\* LogsSpec: the logs route with every combination of type and timestamp.
LogsSpecBodies ==
  {LogBody("ext1", type, timestamp) :
     type \in {Undefined, "", "warn"}, timestamp \in {UndefinedNum, 0, 2}}
  \cup {LogBody("ext2", Undefined, UndefinedNum), LogBody(Undefined, "warn", 2)}

LogsNext ==
  \/ \E b \in LogsSpecBodies : Admit(b, MaxLogs) /\ PostLogs(b)
  \/ GetDashboard
  \/ \E id \in LookupIds : GetUser(id)
  \/ Tick

LogsSpec == Init /\ [][LogsNext]_vars

\* StatsSpec: the stats route.
StatsSpecBodies ==
  {StatsBody(id, d, Undefined, NoArray, NoObject) :
     id \in Clients \cup {""}, d \in Domains \cup {Undefined}}
  \cup {StatsBody("ext1", "a.com", Undefined, Array(<<"a.com">>), Config("h1")),
        StatsBody("ext2", Undefined, "p1", NoArray, Config(Undefined))}

StatsNext ==
  \/ \E b \in StatsSpecBodies : Admit(b, MaxStats) /\ PostStats(b)
  \/ \E b \in {AnalyticsBody("ext1", "request", JObject("a.com"))} :
       Admit(b, MaxStats) /\ PostAnalytics(b)
  \/ GetDashboard
  \/ \E id \in LookupIds : GetUser(id)
  \/ Restart

StatsSpec == Init /\ [][StatsNext]_vars

\* AnalyticsSpec: the analytics route, and one stats body.
AnalyticsSpecBodies ==
  {AnalyticsBody(id, type, JObject("a.com")) :
     id \in {"ext1", ""}, type \in {"request", "error", "other", Undefined}}
  \cup {AnalyticsBody(id, "batch", JBatch(rs, es)) :
          id \in Clients,
          rs \in {NoList, List(<<>>), List(<<JObject("a.com"), JObject("b.com")>>)},
          es \in {NoList, List(<<JObject("b.com")>>)}}

AnalyticsNext ==
  \/ \E b \in AnalyticsSpecBodies : Admit(b, MaxAnalytics) /\ PostAnalytics(b)
  \/ \E b \in {StatsBody("ext1", "a.com", Undefined, NoArray, NoObject)} :
       Admit(b, MaxAnalytics) /\ PostStats(b)
  \/ GetDashboard

AnalyticsSpec == Init /\ [][AnalyticsNext]_vars

\* ExportSpec: the export route after some stats calls.
ExportNext ==
  \/ \E b \in SomeStatsBodies : Admit(b, MaxExports) /\ PostStats(b)
  \/ \E auth \in AuthHeaders :
       (auth # AdminToken \/ Within(MaxExports)) /\ GetExport(auth)
  \/ GetDashboard
  \/ Tick

ExportSpec == Init /\ [][ExportNext]_vars

\* TopSpec: stats calls and batches that bring more than TopN domains.
ElevenDomains ==
  <<JObject("d01"), JObject("d02"), JObject("d03"), JObject("d04"),
    JObject("d05"), JObject("d06"), JObject("d07"), JObject("d08"),
    JObject("d09"), JObject("d10"), JObject("d11")>>

TopSpecStatsBodies ==
  {StatsBody(id, d, Undefined, NoArray, NoObject) :
     id \in Clients, d \in {"a.com", "b.com"}}

TopSpecAnalyticsBodies ==
  {AnalyticsBody("ext1", "batch", JBatch(List(ElevenDomains), NoList)),
   AnalyticsBody("ext2", "batch",
     JBatch(List(<<JObject("d11"), JObject("d11"), JObject("a.com")>>), NoList)),
   AnalyticsBody("ext2", "request", JObject("d02"))}

TopNext ==
  \/ \E b \in TopSpecStatsBodies : Admit(b, MaxTop) /\ PostStats(b)
  \/ \E b \in TopSpecAnalyticsBodies : Admit(b, MaxTop) /\ PostAnalytics(b)
  \/ GetDashboard

TopSpec == Init /\ [][TopNext]_vars

\* RaceSpec: requests are received while others wait; the event loop
\* dispatches every waiting request (the fairness condition).
RaceRequests ==
  {[route |-> "stats", body |-> StatsBody(id, "a.com", Undefined, NoArray, NoObject)] :
     id \in Clients}
  \cup {[route |-> "logs", body |-> LogBody("ext1", Undefined, UndefinedNum)]}

RaceNext ==
  \/ \E rq \in RaceRequests : Receive(rq)
  \/ DispatchLogs
  \/ DispatchStats
  \/ GetDashboard

RaceSpec == Init /\ [][RaceNext]_vars /\ WF_vars(Dispatch)

\* FaultSpec: analytics calls whose data, or whose list items, are absent,
\* null or not a list.
FaultSpecBodies ==
  {AnalyticsBody("ext1", "request", d) : d \in {JUndefined, JNull, JObject("a.com")}}
  \cup {AnalyticsBody("ext1", "batch", d) :
          d \in {JNull,
                 JBatch(List(<<JNull>>), NoList),
                 JBatch(List(<<JObject("a.com")>>), NotIterable),
                 JBatch(NotIterable, List(<<JObject("b.com")>>)),
                 JBatch(List(<<JObject("a.com")>>), List(<<JObject("b.com")>>))}}
  \cup {AnalyticsBody("ext2", "error", JNull)}

FaultNext ==
  \/ \E b \in FaultSpecBodies : Admit(b, MaxFaults) /\ PostAnalytics(b)
  \/ \E b \in {StatsBody("ext2", "b.com", Undefined, NoArray, NoObject)} :
       Admit(b, MaxFaults) /\ PostStats(b)
  \/ GetDashboard
  \/ Tick

FaultSpec == Init /\ [][FaultNext]_vars

\* EventsSpec: logs calls with and without a timestamp, and the dashboard.
EventsSpecBodies ==
  {LogBody("ext1", Undefined, timestamp) : timestamp \in {UndefinedNum, 1, 2}}
  \cup {LogBody("ext2", "warn", 3), LogBody("", "warn", 3)}

EventsNext ==
  \/ \E b \in EventsSpecBodies : Admit(b, MaxEvents) /\ PostLogs(b)
  \/ GetDashboard

EventsSpec == Init /\ [][EventsNext]_vars

\* UsersSpec: stats calls with and without a proxyConfig, with different
\* domains, hosts and times; restarts.
UsersSpecBodies ==
  {StatsBody("ext1", "a.com", Undefined, Array(<<"a.com", "b.com">>), Config("h1")),
   StatsBody("ext1", "b.com", "p1", NoArray, Config("h2")),
   StatsBody("ext1", "a.com", Undefined, Array(<<"b.com">>), NoObject),
   StatsBody("ext2", Undefined, "p1", Array(<<>>), Config(Undefined)),
   StatsBody(Undefined, "a.com", Undefined, NoArray, Config("h1"))}

UsersNext ==
  \/ \E b \in UsersSpecBodies : Admit(b, MaxUsers) /\ PostStats(b)
  \/ GetDashboard
  \/ \E id \in LookupIds : GetUser(id)
  \/ Tick
  \/ Restart

UsersSpec == Init /\ [][UsersNext]_vars

(***************************************************************************)
(* Properties.                                                             *)
(***************************************************************************)
Ingestion == {"logs", "stats", "analytics"}

\* C1: an ingestion call (logs, stats, analytics) whose extensionId is
\* absent or empty is answered 400, and the step that answers it leaves
\* every directory and every file as it was.
C1_MissingIdWritesNothing ==
  [][(res'.op \in Ingestion /\ ~Truthy(res'.req.extensionId))
       => (res'.status = 400 /\ fsVars' = fsVars)]_vars

\* Reached: a stats call without identifier was refused while files of
\* earlier calls exist.
C1_Witness ==
  /\ res.op = "stats"
  /\ res.req.extensionId = Undefined
  /\ res.status = 400
  /\ DOMAIN statFiles # {}
  /\ DOMAIN logFiles # {}

\* C7: GET /api/user/:extensionId answers 404 for every identifier for
\* which no POST /api/stats call carrying a proxyConfig has been
\* processed since the store was empty, whatever else was ingested.
C7_UnknownUserNotFound ==
  (res.op = "user" /\ res.req.extensionId \notin hist.configEver)
    => res.status = 404

\* Reached: 404 for a client whose stats (without proxyConfig) and
\* analytics have been ingested.
C7_Witness ==
  /\ res.op = "user"
  /\ res.req.extensionId = "ext2"
  /\ res.status = 404
  /\ hist.statsEver["ext2"] > 0
  /\ <<"logs", "ext2", "analytics">> \in dirs

\* C10: the dashboard asked right after a restart, before any further
\* ingestion, reports no requests, no errors, no active users and empty
\* rankings and events, while totalUsers is the number of user files
\* written before the restart.
C10_RestartEmptiesAggregator ==
  (res.op = "dashboard" /\ hist.boots > 0 /\ hist.callsBoot = 0)
    => /\ res.status = 200
       /\ res.body.summary.totalRequests = 0
       /\ res.body.summary.totalErrors = 0
       /\ res.body.summary.activeUsers = 0
       /\ res.body.recentEvents = <<>>
       /\ res.body.proxyUsage = <<>>
       /\ res.body.topDomains = <<>>
       /\ res.body.summary.totalUsers = Cardinality(hist.configEver)

\* Reached: the dashboard after a restart that followed a stats call with
\* a proxyConfig and a logs call.
C10_Witness ==
  /\ res.op = "dashboard"
  /\ hist.boots > 0
  /\ hist.callsBoot = 0
  /\ DOMAIN userFiles # {}
  /\ DOMAIN logFiles # {}
  /\ res.body.summary.totalUsers = 1

\* C8: GET /api/export whose Authorization header is absent or is not the
\* fixed bearer token is answered 403, and the step writes no file and
\* leaves the in-memory aggregator as it was.
C8_ExportRefusedWritesNothing ==
  [][(res'.op = "export" /\ res'.req.authorization # AdminToken)
       => (res'.status = 403 /\ fsVars' = fsVars
           /\ analyticsStore' = analyticsStore)]_vars

\* Reached: a wrong token refused while the aggregator holds requests.
C8_Witness ==
  /\ res.op = "export"
  /\ res.req.authorization = "Bearer wrong"
  /\ res.status = 403
  /\ TotalRequests > 0

\* What the files hold for a client, and a client's in-memory sequence.
StatsTotal(c) == IF c \in DOMAIN statFiles THEN statFiles[c].totalRequests ELSE 0
LogEntries(c) ==
  SumOf([f \in {g \in DOMAIN logFiles : g[1] = c} |-> Len(logFiles[f])])
SeqOf(m, c) == IF MapHas(m, c) THEN MapGet(m, c) ELSE <<>>

Racing == \E c \in Clients : \E route \in {"logs", "stats"} : Waiting(route, c) >= 2
LostUpdate ==
  \E c \in Clients :
    \/ StatsTotal(c) < hist.statsEver[c]
    \/ LogEntries(c) < hist.logsEver[c]

C3_TotalRequests ==
  (res.op = "dashboard" /\ res.status = 200)
    => /\ res.body.summary.totalRequests =
            SumOf([c \in MapKeys(analyticsStore.requests) |->
                     Len(MapGet(analyticsStore.requests, c))])
       /\ hist.analyticsBoot = 0
            => res.body.summary.totalRequests = SumOf(hist.statsBoot)

\* Reached: three stats calls over two clients, then the dashboard.
C3_Witness ==
  /\ res.op = "dashboard"
  /\ res.status = 200
  /\ hist.analyticsBoot = 0
  /\ hist.statsBoot["ext1"] = 2
  /\ hist.statsBoot["ext2"] = 1
  /\ res.body.summary.totalRequests = 3

\* A step in which an ingestion call of the route was handled.
Handled(route) ==
  /\ res'.op = route
  /\ hist'.calls = hist.calls + 1

\* C4: a successful batch analytics call whose data.requests and
\* data.errors are arrays of r and e items raises the dashboard's
\* totalRequests by r and totalErrors by e, appends the items in order to
\* the client's sequences and leaves the other clients' sequences alone.
C4_BatchAppends ==
  [][(/\ Handled("analytics")
      /\ res'.status = 200
      /\ res'.req.type = "batch"
      /\ res'.req.data.requests.is = "array"
      /\ res'.req.data.errors.is = "array")
     => LET id == res'.req.extensionId
            rs == res'.req.data.requests.items
            es == res'.req.data.errors.items
        IN /\ TotalRequests' = TotalRequests + Len(rs)
           /\ TotalErrors' = TotalErrors + Len(es)
           /\ SeqOf(analyticsStore'.requests, id) =
                SeqOf(analyticsStore.requests, id) \o rs
           /\ SeqOf(analyticsStore'.errors, id) =
                SeqOf(analyticsStore.errors, id) \o es
           /\ \A c \in Clients \ {id} :
                /\ SeqOf(analyticsStore'.requests, c) = SeqOf(analyticsStore.requests, c)
                /\ SeqOf(analyticsStore'.errors, c) = SeqOf(analyticsStore.errors, c)]_vars

\* Reached: a batch of two requests and one error for a client that
\* already had a request in memory.
C4_Witness ==
  /\ res.op = "analytics"
  /\ res.status = 200
  /\ res.req.type = "batch"
  /\ Len(res.req.data.requests.items) = 2
  /\ Len(res.req.data.errors.items) = 1
  /\ Len(SeqOf(analyticsStore.requests, res.req.extensionId)) = 3
  /\ TotalErrors = 1

NoDuplicate(s) == \A i, j \in DOMAIN s : s[i] = s[j] => i = j

\* C5: starting from no stats file, no Stats Record ever holds a domain
\* twice, and a successful stats call whose domain is already in the
\* client's list leaves the list as it was and adds one to totalRequests.
C5_DomainsDeduplicated ==
  [][/\ \A c \in DOMAIN statFiles' : NoDuplicate(statFiles'[c].domains)
     /\ (/\ Handled("stats")
         /\ res'.status = 200
         /\ res'.req.extensionId \in DOMAIN statFiles
         /\ Includes(statFiles[res'.req.extensionId].domains, res'.req.domain))
        => LET id == res'.req.extensionId
           IN /\ statFiles'[id].domains = statFiles[id].domains
              /\ statFiles'[id].totalRequests = statFiles[id].totalRequests + 1]_vars

\* Reached: the same domain submitted twice for one client.
C5_Witness ==
  /\ res.op = "stats"
  /\ res.status = 200
  /\ Truthy(res.req.domain)
  /\ LET id == res.req.extensionId
         seen == SeqOf(analyticsStore.requests, id)
     IN /\ Len(seen) = 2
        /\ \A i \in DOMAIN seen : seen[i].domain = res.req.domain
        /\ statFiles[id].totalRequests = 2
        /\ statFiles[id].domains = <<res.req.domain>>

\* The truthy domains of the payloads in memory, and how often each occurs.
DomainsPresent ==
  {d \in {DomainOf(AllRequests[i]) : i \in DOMAIN AllRequests} : Truthy(d)}
Occurrences(d) ==
  Cardinality({i \in DOMAIN AllRequests : DomainOf(AllRequests[i]) = d})

\* C6: topDomains has at most 10 entries, in non-increasing order of
\* count; while at most 10 distinct domains are in memory it holds, for
\* each of them, the entry with the number of payloads that carry it; and
\* when only stats calls were made since the process started, that entry
\* is {domain: d, count: k} for the k calls that carried d.
C6_TopDomains ==
  (res.op = "dashboard" /\ res.status = 200)
    => LET top == res.body.topDomains
       IN /\ Len(top) <= 10
          /\ \A i \in 1 .. Len(top) - 1 : top[i].count >= top[i + 1].count
          /\ Cardinality(DomainsPresent) <= 10
               => \A d \in DomainsPresent :
                    \E i \in DOMAIN top :
                      top[i] = [domain |-> d, count |-> Occurrences(d)]
          /\ hist.analyticsBoot = 0
               => \A d \in Domains :
                    hist.domainBoot[d] > 0
                      => \E i \in DOMAIN top :
                           top[i] = [domain |-> d, count |-> hist.domainBoot[d]]

\* Reached: three stats calls carrying a.com, then the dashboard.
C6_Witness ==
  /\ res.op = "dashboard"
  /\ res.status = 200
  /\ hist.analyticsBoot = 0
  /\ hist.domainBoot["a.com"] = 3
  /\ res.body.topDomains = <<[domain |-> "a.com", count |-> 3]>>

\* Reached as well: eleven distinct domains in memory, ten of them listed.
C6_CutReached ==
  /\ res.op = "dashboard"
  /\ Cardinality(DomainsPresent) > 10
  /\ Len(res.body.topDomains) = 10

\* C9: the entry a successful POST /api/logs appends to the day-file has
\* type "info" when the body gives no type and a timestamp between the
\* clock at the start and at the end of the call when the body gives no
\* timestamp; a type or timestamp that the body gives is stored as given.
C9_LogEntryStored ==
  [][(Handled("logs") /\ res'.status = 200)
     => LET b == res'.req
        IN \E f \in DOMAIN logFiles' :
             LET old == IF f \in DOMAIN logFiles THEN logFiles[f] ELSE <<>>
                 e == logFiles'[f][Len(logFiles'[f])]
             IN /\ f[1] = b.extensionId
                /\ logFiles'[f] = Append(old, e)
                /\ IF b.timestamp = UndefinedNum
                   THEN clock <= e.timestamp /\ e.timestamp <= clock'
                   ELSE e.timestamp = b.timestamp
                /\ IF b.type = Undefined
                   THEN e.type = "info"
                   ELSE e.type = b.type]_vars

\* C11: GET /api/dashboard is answered with the summary object (status
\* 200), never with a server error, in every state that ingestion calls
\* can bring about, the users directory being readable.
C11_DashboardNeverFails == res.op = "dashboard" => res.status = 200

\* C12: every POST /api/analytics call that passes the identifier check
\* writes a file that did not exist before (one more file in the client's
\* analytics folder) and leaves the content of every existing analytics
\* file as it was.
C12_AnalyticsFileNeverOverwritten ==
  [][Handled("analytics")
     => /\ Cardinality(DOMAIN analyticsFiles') = Cardinality(DOMAIN analyticsFiles) + 1
        /\ \A f \in DOMAIN analyticsFiles : analyticsFiles'[f] = analyticsFiles[f]]_vars

\* C13: a POST /api/analytics call of type "batch" that is answered with a
\* server error leaves every client's in-memory requests and errors
\* sequences as they were before the call.
C13_FailedBatchAppendsNothing ==
  [][(/\ Handled("analytics")
      /\ res'.req.type = "batch"
      /\ res'.status = 500)
     => \A c \in Clients :
          /\ SeqOf(analyticsStore'.requests, c) = SeqOf(analyticsStore.requests, c)
          /\ SeqOf(analyticsStore'.errors, c) = SeqOf(analyticsStore.errors, c)]_vars

\* C14: recentEvents holds min(50, number of events in memory) entries,
\* and those of its entries that carry a timestamp are in non-increasing
\* order of timestamp, whether or not other logs calls came without one.
C14_RecentEventsSorted ==
  (res.op = "dashboard" /\ res.status = 200)
    => LET recent == res.body.recentEvents
       IN /\ Len(recent) = (IF Len(AllEvents) < 50 THEN Len(AllEvents) ELSE 50)
          /\ \A i, j \in DOMAIN recent :
               (/\ i < j
                /\ recent[i].timestamp # UndefinedNum
                /\ recent[j].timestamp # UndefinedNum)
               => recent[i].timestamp >= recent[j].timestamp

\* C15: a handled analytics call whose type is none of "request", "error",
\* "batch" (an absent type included) writes its file, is answered 200 and
\* leaves the four in-memory Maps as they were; a call of type "request"
\* appends its data to the client's requests sequence and changes nothing
\* else in memory, and a call of type "error" does so for the client's
\* errors sequence.
C15_OnlyTheTypesSequence ==
  [][(Handled("analytics") /\ res'.req.type # "batch")
     => LET id == res'.req.extensionId
            type == res'.req.type
            data == res'.req.data
            file == <<id, TypeName(type), clock>>
        IN /\ res'.status = 200
           /\ file \in DOMAIN analyticsFiles'
           /\ analyticsFiles'[file].data = data
           /\ analyticsStore'.events = analyticsStore.events
           /\ analyticsStore'.users = analyticsStore.users
           /\ type # "request" => analyticsStore'.requests = analyticsStore.requests
           /\ type # "error" => analyticsStore'.errors = analyticsStore.errors
           /\ type = "request"
                => /\ SeqOf(analyticsStore'.requests, id) =
                        Append(SeqOf(analyticsStore.requests, id), data)
                   /\ \A c \in Clients \ {id} :
                        SeqOf(analyticsStore'.requests, c) =
                          SeqOf(analyticsStore.requests, c)
           /\ type = "error"
                => /\ SeqOf(analyticsStore'.errors, id) =
                        Append(SeqOf(analyticsStore.errors, id), data)
                   /\ \A c \in Clients \ {id} :
                        SeqOf(analyticsStore'.errors, c) =
                          SeqOf(analyticsStore.errors, c)]_vars

\* Reached: a call without type answered 200 and persisted while the
\* aggregator holds a request of an earlier call, and nothing more.
C15_Witness ==
  /\ res.op = "analytics"
  /\ res.status = 200
  /\ res.req.type = Undefined
  /\ \E f \in DOMAIN analyticsFiles : f[1] = res.req.extensionId /\ f[2] = "undefined"
  /\ TotalRequests = 1
  /\ TotalErrors = 0
  /\ hist.calls = 2

\* C16: after a successful POST /api/stats that carries a proxyConfig, the
\* client's user file and its entry in the users Map hold exactly the
\* call's domains (the empty list when it has none) and the call's
\* proxyConfig, whatever the record held before; a POST /api/stats without
\* proxyConfig leaves the user files and the users Map as they were.
C16_UserRecordOverwritten ==
  [][Handled("stats")
     => LET b == res'.req
            id == b.extensionId
        IN IF b.proxyConfig.defined
           THEN /\ id \in DOMAIN userFiles'
                /\ userFiles'[id].domains =
                     (IF b.domains.defined THEN b.domains.items ELSE <<>>)
                /\ userFiles'[id].proxyConfig = b.proxyConfig
                /\ MapHas(analyticsStore'.users, id)
                /\ MapGet(analyticsStore'.users, id) = userFiles'[id]
                /\ \A c \in DOMAIN userFiles \ {id} : userFiles'[c] = userFiles[c]
           ELSE /\ userFiles' = userFiles
                /\ analyticsStore'.users = analyticsStore.users]_vars

\* Reached: a record with two domains and host h1 replaced by a call that
\* has no domains and host h2.
C16_Witness ==
  /\ res.op = "stats"
  /\ res.status = 200
  /\ res.req.proxyConfig = Config("h2")
  /\ ~res.req.domains.defined
  /\ statFiles["ext1"].domains = <<"a.com", "b.com">>
  /\ userFiles["ext1"].domains = <<>>
  /\ userFiles["ext1"].proxyConfig = Config("h2")

\* C18: every client in the users Map has a user file whose content is the
\* Map's entry, so that the number of active users is at most the size of
\* the Map, which is at most the number of user files; the dashboard's
\* activeUsers and totalUsers are on either side of the size of the Map.
C18_UsersMapBackedByFiles ==
  /\ \A i \in DOMAIN analyticsStore.users :
       /\ analyticsStore.users[i].k \in DOMAIN userFiles
       /\ userFiles[analyticsStore.users[i].k] = analyticsStore.users[i].v
  /\ ActiveUsers <= Len(analyticsStore.users)
  /\ Len(analyticsStore.users) <= TotalUsers
  /\ (res.op = "dashboard" /\ res.status = 200)
       => /\ res.body.summary.activeUsers <= Len(analyticsStore.users)
          /\ Len(analyticsStore.users) <= res.body.summary.totalUsers

\* Reached: two user files, one client in the Map since the restart, not
\* active within the last day, and the dashboard saying so.
C18_Witness ==
  /\ res.op = "dashboard"
  /\ res.status = 200
  /\ hist.boots = 1
  /\ res.body.summary.activeUsers = 0
  /\ Len(analyticsStore.users) = 1
  /\ res.body.summary.totalUsers = 2

\* C17: under every interleaving of the calls received, a client's events
\* sequence has one entry for each of its successful POST /api/logs calls
\* and its requests sequence one entry for each of its successful
\* POST /api/stats calls, a handled call appends its body to its sequence,
\* and the entries appended before keep their positions and values.
C17_AppendsKeptInOrder ==
  [][/\ \A c \in Clients :
          /\ Len(SeqOf(analyticsStore'.events, c)) = hist'.logsEver[c]
          /\ Len(SeqOf(analyticsStore'.requests, c)) = hist'.statsEver[c]
          /\ \A i \in DOMAIN SeqOf(analyticsStore.events, c) :
               SeqOf(analyticsStore'.events, c)[i] = SeqOf(analyticsStore.events, c)[i]
          /\ \A i \in DOMAIN SeqOf(analyticsStore.requests, c) :
               SeqOf(analyticsStore'.requests, c)[i] = SeqOf(analyticsStore.requests, c)[i]
     /\ (Handled("logs") /\ res'.status = 200)
          => SeqOf(analyticsStore'.events, res'.req.extensionId) =
               Append(SeqOf(analyticsStore.events, res'.req.extensionId), res'.req)
     /\ (Handled("stats") /\ res'.status = 200)
          => SeqOf(analyticsStore'.requests, res'.req.extensionId) =
               Append(SeqOf(analyticsStore.requests, res'.req.extensionId), res'.req)]_vars

\* Reached: two logs calls for one client were waiting together, a stats
\* call for it was received as well, and all three have been handled.
C17_Witness ==
  /\ hist.overlap["logs"]["ext1"] >= 2
  /\ hist.overlap["stats"]["ext1"] >= 1
  /\ InflightCount(inflight) = 0
  /\ Len(SeqOf(analyticsStore.events, "ext1")) = 2
  /\ Len(SeqOf(analyticsStore.requests, "ext1")) = 1

\* C19: a step that answers GET /api/dashboard or GET /api/user leaves
\* every file and every in-memory sequence, the order of its entries
\* included, as it was.
C19_ReadsChangeNothing ==
  [][res'.op \in {"dashboard", "user"}
     => (fsVars' = fsVars /\ analyticsStore' = analyticsStore)]_vars

\* Reached: the dashboard answered with two events in an order that is
\* not the one they have in memory.
C19_Witness ==
  /\ res.op = "dashboard"
  /\ res.status = 200
  /\ Len(AllEvents) = 2
  /\ Len(res.body.recentEvents) = 2
  /\ res.body.recentEvents # AllEvents
  /\ DOMAIN logFiles # {}
====
